---- MODULE Spec2Model ----
(***************************************************************************)
(* A model of the markethub products router (routes/products) and of the   *)
(* sponsored-search pipeline it serves.                                    *)
(*                                                                         *)
(* The products API is modelled as a set of concurrently running request   *)
(* handlers.  Each handler is cut at its `await`s: one action per awaited  *)
(* call (cache get, store find, cache setEx, store mutation, cache del,    *)
(* scrape), each action also running the synchronous continuation that     *)
(* follows the call up to the next await or the response.  A handler does   *)
(* nothing observable between its start and its first awaited call, so the *)
(* start is part of the action of that first call.                         *)
(***************************************************************************)
EXTENDS Integers, Sequences, FiniteSets, TLC

VARIABLES
    store,     \* the Product collection of the document store: a set of documents
    nextId,    \* the next _id the store hands out (creation order)
    cache,     \* the key-value cache: products:<userId> -> entry or NoEntry
    req,       \* per request slot: the handler's position and its locals
    arrived,   \* the requests that have arrived so far
    resp,      \* the response the last step sent, NoResp when it sent none
    sponsored, \* the sponsored-search handler: its request, position and response
    page       \* the search page: its React state and its requests in flight

vars == <<store, nextId, cache, req, arrived, resp, sponsored, page>>

----------------------------------------------------------------------------
(* Bounds of the model *)

MaxId == 1        \* products ever created
MaxPrice == 1     \* prices range over 0..MaxPrice
MaxViews == 1     \* a product is read one by one while its view counter is below this
MaxRequests == 3  \* requests that arrive in one behaviour
MaxResults == 2   \* records in one answer of the shopping-search provider
MaxDecimals == 2  \* digits after the point in the prices the provider sends
MaxTicks == 2     \* steps of the clock in which an expiry runs out
MaxSearches == 2  \* searches submitted on the search page in one behaviour

(* Program constants *)

Expiry == 300  \* seconds given to redis.setEx
Limit == 100      \* .limit(100) of the list query

Users == {"u", "v"}
Slots == 1..2
Ids == 1..MaxId
Prices == 0..MaxPrice
Names == {"a"}

Null == [absent |-> TRUE]
NoEntry == [absent |-> TRUE]
Throws == [throws |-> TRUE]

----------------------------------------------------------------------------
(* Pure helpers *)

Min2(a, b) == IF a <= b THEN a ELSE b

\* .sort({ createdAt: -1 }): newest first; _id follows creation order
RECURSIVE SortDesc(_)
SortDesc(S) ==
    IF S = {} THEN <<>>
    ELSE LET m == CHOOSE p \in S : \A q \in S : q._id <= p._id
         IN  <<m>> \o SortDesc(S \ {m})

\* Product.find({ userId }).sort({ createdAt: -1 }).limit(100)
Find(st, userId) ==
    LET all == SortDesc({p \in st : p.userId = userId})
    IN  SubSeq(all, 1, Min2(Len(all), Limit))

\* A filter on the id alone
MatchAnyOwner(st, id, userId) == {p \in st : p._id = id}

\* Product.findOne({ _id, userId }): the matching documents (none or one)
Match(st, id, userId) == {p \in st : p._id = id /\ p.userId = userId}

\* { $set: req.body }: every field of the body replaces the document's field
SetFields(p, body) ==
    [f \in DOMAIN p |-> IF f \in DOMAIN body THEN body[f] ELSE p[f]]

\* priceData?.price || 0
CurrentPriceOf(priceData) ==
    IF priceData = Null THEN 0
    ELSE IF priceData.price # 0 THEN priceData.price ELSE 0

\* A history seeded only by a truthy price: priceData?.price ? [...] : []
PriceHistoryOfTruthyPrice(priceData) ==
    IF priceData # Null /\ priceData.price # 0 THEN <<priceData.price>> ELSE <<>>

\* priceData ? [{ price: priceData.price, date }] : []
PriceHistoryOf(priceData) ==
    IF priceData # Null THEN <<priceData.price>> ELSE <<>>

\* new Product({...}) of POST /
NewProduct(name, userId, priceData) ==
    [_id          |-> 0,
     userId       |-> userId,
     name         |-> name,
     currentPrice |-> CurrentPriceOf(priceData),
     priceHistory |-> PriceHistoryOf(priceData),
     views        |-> 0]

\* The request bodies PUT /:id is driven with: any partial field set
Bodies ==
    {[name |-> n] : n \in Names}
    \cup {[currentPrice |-> p] : p \in Prices}
    \cup {[userId |-> w] : w \in Users}
    \cup {[priceHistory |-> <<>>]}

\* What the scraping collaborator can answer: a price, nothing, or an error
ScrapeOutcomes == {[price |-> p] : p \in Prices} \cup {Null, Throws}

----------------------------------------------------------------------------
(* Requests and responses *)

Idle ==
    [pc |-> "idle", kind |-> "none", userId |-> "u", redis |-> FALSE,
     products |-> <<>>, priceData |-> Null, product |-> Null,
     after |-> {}, preWrite |-> FALSE, beforeWrite |-> FALSE]

\* A handler of the given kind, run for the authenticated user, at its start
Started(kind, userId) == [Idle EXCEPT !.kind = kind, !.userId = userId]

NoResp ==
    [status |-> 0, kind |-> "none", userId |-> "u", cached |-> FALSE,
     products |-> <<>>, product |-> Null, error |-> "", applied |-> FALSE,
     client |-> FALSE]

\* res.json(...) and res.status(201).json(...): a success response of the
\* handler r.  applied tells whether the handler had changed the store when it
\* answered, client whether a list read had a Redis client.
Response(r, status, cached, products, product, applied) ==
    [status |-> status, kind |-> r.kind, userId |-> r.userId, cached |-> cached,
     products |-> products, product |-> product, error |-> "", applied |-> applied,
     client |-> (r.kind = "list" /\ r.redis)]

\* JSON.stringify(products): the listing as the text stored in Redis, here the
\* tuple of each product's field values in the order of the schema
JsonStringify(products) ==
    [i \in 1..Len(products) |->
        <<products[i]._id, products[i].userId, products[i].name,
          products[i].currentPrice, products[i].priceHistory, products[i].views>>]

\* A parse that reads the view counters as 0
JsonParseWithoutViews(text) ==
    [i \in 1..Len(text) |->
        [_id |-> text[i][1], userId |-> text[i][2], name |-> text[i][3],
         currentPrice |-> text[i][4], priceHistory |-> text[i][5], views |-> 0]]

\* JSON.parse(cached): the listing read back from the stored text
JsonParse(text) ==
    [i \in 1..Len(text) |->
        [_id |-> text[i][1], userId |-> text[i][2], name |-> text[i][3],
         currentPrice |-> text[i][4], priceHistory |-> text[i][5],
         views |-> text[i][6]]]

\* res.status(404).json({ message: 'Product not found' })
NotFound(r) == Response(r, 404, FALSE, <<>>, Null, FALSE)

\* The catch blocks: res.status(500).json({ message, error: error.message });
\* error names the call that rejected
Failure(r, error, applied) ==
    [Response(r, 500, FALSE, <<>>, Null, applied) EXCEPT !.error = error]

----------------------------------------------------------------------------
(* History bookkeeping (observes the handlers, never read by them).  A     *)
(* listing read from the store, whether still held by its list read or     *)
(* stored in the cache, carries: after, the writes in flight whose store   *)
(* mutation came after the listing was read; preWrite, whether such a      *)
(* write has since run its cache delete; beforeWrite, whether such a write *)
(* has since completed (answered).                                         *)

\* The list read r of user u holds a listing it found and has not stored yet
Holds(r, u) == r.kind = "list" /\ r.userId = u /\ r.pc = "setEx"

\* The write in slot w of user u applied its store mutation; done tells
\* whether it answered in the same step (it had no client)
NoteMutation(x, w, done) ==
    IF done THEN [x EXCEPT !.beforeWrite = TRUE] ELSE [x EXCEPT !.after = @ \cup {w}]

HeldAfterMutation(rq, w, u, done) ==
    [r \in Slots |->
        IF r # w /\ Holds(rq[r], u) THEN NoteMutation(rq[r], w, done) ELSE rq[r]]

CachedAfterMutation(c, w, u, done) ==
    [c EXCEPT ![u] = IF @ = NoEntry THEN @ ELSE NoteMutation(@, w, done)]

\* The write in slot w answered after its redis.del; ok tells whether the
\* delete ran
NoteDel(x, w, ok) ==
    IF w \in x.after
    THEN [x EXCEPT !.after = @ \ {w}, !.beforeWrite = TRUE, !.preWrite = @ \/ ok]
    ELSE x

HeldAfterDel(rq, w, ok) == [r \in Slots |-> NoteDel(rq[r], w, ok)]

CachedAfterFailedDel(c, w, u) ==
    [c EXCEPT ![u] = IF @ = NoEntry THEN @ ELSE NoteDel(@, w, FALSE)]

----------------------------------------------------------------------------
(* Arrival of requests *)

\* The slot a new request takes: the first one free
FreeSlot(s) == req[s].pc = "idle" /\ \A t \in Slots : req[t].pc = "idle" => s <= t

\* The slots a request can arrive in (at most MaxRequests arrive in one behaviour)
ArrivalSlots == {s \in Slots : FreeSlot(s) /\ arrived < MaxRequests}

\* A request arrives in slot s
Arrives(s) ==
    /\ s \in ArrivalSlots
    /\ arrived' = arrived + 1

----------------------------------------------------------------------------
(* GET / : the list read *)

\* lines 65-69, 73: Product.find answers; without a client the handler responds
FindThen(s, r) ==
    LET products == Find(store, r.userId) IN
    IF r.redis
    THEN /\ req' = [req EXCEPT ![s] = [r EXCEPT !.pc = "setEx", !.products = products]]
         /\ resp' = NoResp
    ELSE /\ resp' = Response(r, 200, FALSE, products, Null, FALSE)
         /\ req' = [req EXCEPT ![s] = Idle]

\* lines 53-63, 74-76: the handler starts and getRedisClient() returns a
\* client; redis.get answers (or rejects when ok is FALSE): a hit is the response, a
\* miss issues Product.find
CacheGet(s, u, ok) ==
    LET r == [Started("list", u) EXCEPT !.redis = TRUE] IN
    /\ Arrives(s)
    /\ IF ~ok
       THEN /\ resp' = Failure(r, "cache", FALSE)
            /\ UNCHANGED req
       ELSE IF cache[u] # NoEntry
       THEN /\ resp' = Response(r, 200, TRUE, JsonParse(cache[u].data), Null, FALSE)
            /\ UNCHANGED req
       ELSE /\ req' = [req EXCEPT ![s] = [r EXCEPT !.pc = "find"]]
            /\ resp' = NoResp
    /\ UNCHANGED <<store, nextId, cache>>
    /\ UNCHANGED <<sponsored, page>>

\* lines 53-58, 65-73: the handler starts, getRedisClient() returns no client,
\* and Product.find answers
ListNoCache(s, u) ==
    /\ Arrives(s)
    /\ FindThen(s, Started("list", u))
    /\ UNCHANGED <<store, nextId, cache>>
    /\ UNCHANGED <<sponsored, page>>

\* lines 65-69: Product.find answers after a cache miss
StoreFind(s) ==
    /\ req[s].pc = "find"
    /\ FindThen(s, req[s])
    /\ UNCHANGED <<store, nextId, cache>>
    /\ UNCHANGED <<arrived, sponsored, page>>

\* A populate that stores the listing without an expiry (ttl -1, as Redis
\* reports a key that never expires)
SetExWithoutExpiry(s, ok) ==
    LET r == req[s] IN
    /\ r.pc = "setEx"
    /\ IF ok
       THEN /\ cache' = [cache EXCEPT ![r.userId] =
                            [data |-> JsonStringify(r.products), ttl |-> -1,
                             after |-> r.after,
                             preWrite |-> r.preWrite, beforeWrite |-> r.beforeWrite]]
            /\ resp' = Response(r, 200, FALSE, r.products, Null, FALSE)
       ELSE /\ resp' = Failure(r, "cache", FALSE)
            /\ UNCHANGED cache
    /\ req' = [req EXCEPT ![s] = Idle]
    /\ UNCHANGED <<store, nextId>>
    /\ UNCHANGED <<arrived, sponsored, page>>

\* lines 70-76: redis.setEx answers (or rejects), then res.json({ products })
SetEx(s, ok) ==
    LET r == req[s] IN
    /\ r.pc = "setEx"
    /\ IF ok
       THEN /\ cache' = [cache EXCEPT ![r.userId] =
                            [data |-> JsonStringify(r.products), ttl |-> Expiry,
                             after |-> r.after,
                             preWrite |-> r.preWrite, beforeWrite |-> r.beforeWrite]]
            /\ resp' = Response(r, 200, FALSE, r.products, Null, FALSE)
       ELSE /\ resp' = Failure(r, "cache", FALSE)
            /\ UNCHANGED cache
    /\ req' = [req EXCEPT ![s] = Idle]
    /\ UNCHANGED <<store, nextId>>
    /\ UNCHANGED <<arrived, sponsored, page>>

----------------------------------------------------------------------------
(* The tail every write shares: getRedisClient(), redis.del, the response *)

\* The status a write answers with on success
OkStatus(kind) == IF kind = "create" THEN 201 ELSE 200

\* lines 100-105, 143-148, 165-170: the continuation of the store mutation of
\* the handler r in slot s; redis tells whether getRedisClient() returned a
\* client.  With a client the handler goes on to redis.del; without one it
\* responds.
AfterWrite(s, r, product, redis) ==
    IF redis
    THEN /\ req' = [HeldAfterMutation(req, s, r.userId, FALSE) EXCEPT
                       ![s] = [r EXCEPT !.pc = "del", !.redis = TRUE,
                                        !.product = product]]
         /\ cache' = CachedAfterMutation(cache, s, r.userId, FALSE)
         /\ resp' = NoResp
    ELSE /\ req' = [HeldAfterMutation(req, s, r.userId, TRUE) EXCEPT ![s] = Idle]
         /\ cache' = CachedAfterMutation(cache, s, r.userId, TRUE)
         /\ resp' = Response(r, OkStatus(r.kind), FALSE, <<>>, product, TRUE)

\* lines 102, 145, 167 and the catch blocks: redis.del answers (or rejects)
Del(s, ok) ==
    LET r == req[s] IN
    /\ r.pc = "del"
    /\ IF ok
       THEN /\ cache' = [cache EXCEPT ![r.userId] = NoEntry]
            /\ req' = [HeldAfterDel(req, s, TRUE) EXCEPT ![s] = Idle]
            /\ resp' = Response(r, OkStatus(r.kind), FALSE, <<>>, r.product, TRUE)
       ELSE /\ cache' = CachedAfterFailedDel(cache, s, r.userId)
            /\ req' = [HeldAfterDel(req, s, FALSE) EXCEPT ![s] = Idle]
            /\ resp' = Failure(r, "cache", TRUE)
    /\ UNCHANGED <<store, nextId>>
    /\ UNCHANGED <<arrived, sponsored, page>>

----------------------------------------------------------------------------
(* POST / : create *)

\* The creates that have started and not yet saved
PendingCreates == Cardinality({t \in Slots : req[t].pc = "save"})

\* lines 79-98, 106-108: the handler reads the body; scrapePrice answers; the
\* product is built and save is issued, or the error is caught
Scrape(s, u, name, priceData) ==
    LET r == Started("create", u) IN
    /\ Arrives(s)
    /\ nextId + PendingCreates <= MaxId
    /\ IF priceData = Throws
       THEN /\ resp' = Failure(r, "scrape", FALSE)
            /\ UNCHANGED req
       ELSE /\ req' = [req EXCEPT ![s] =
                          [r EXCEPT !.pc = "save", !.priceData = priceData,
                                    !.product = NewProduct(name, u, priceData)]]
            /\ resp' = NoResp
    /\ UNCHANGED <<store, nextId, cache>>
    /\ UNCHANGED <<sponsored, page>>

\* lines 98-105: product.save() inserts the document
Save(s, redis) ==
    LET r == req[s]
        product == [r.product EXCEPT !._id = nextId]
    IN
    /\ r.pc = "save"
    /\ store' = store \cup {product}
    /\ nextId' = nextId + 1
    /\ AfterWrite(s, r, product, redis)
    /\ UNCHANGED <<arrived, sponsored, page>>

----------------------------------------------------------------------------
(* PUT /:id : update *)

\* lines 131-148: findOneAndUpdate({ _id, userId }, { $set: body }, { new: true })
Update(s, u, id, body, redis) ==
    LET r == Started("update", u)
        found == Match(store, id, u)
    IN
    /\ Arrives(s)
    /\ IF found = {}
       THEN /\ resp' = NotFound(r)
            /\ UNCHANGED <<store, cache, req>>
       ELSE LET old == CHOOSE p \in found : TRUE
                product == SetFields(old, body)
            IN  /\ store' = (store \ {old}) \cup {product}
                /\ AfterWrite(s, r, product, redis)
    /\ UNCHANGED nextId
    /\ UNCHANGED <<sponsored, page>>

----------------------------------------------------------------------------
(* DELETE /:id *)

\* A delete that invalidates whether or not a document was removed
DeleteInvalidatingAlways(s, u, id, redis) ==
    LET r == Started("delete", u)
        found == Match(store, id, u)
    IN
    /\ Arrives(s)
    /\ store' = store \ found
    /\ AfterWrite(s, r, Null, redis)
    /\ UNCHANGED nextId
    /\ UNCHANGED <<sponsored, page>>

\* lines 154-170: findOneAndDelete({ _id, userId })
Delete(s, u, id, redis) ==
    LET r == Started("delete", u)
        found == Match(store, id, u)
    IN
    /\ Arrives(s)
    /\ IF found = {}
       THEN /\ resp' = NotFound(r)
            /\ UNCHANGED <<store, cache, req>>
       ELSE /\ store' = store \ found
            /\ AfterWrite(s, r, Null, redis)
    /\ UNCHANGED nextId
    /\ UNCHANGED <<sponsored, page>>

----------------------------------------------------------------------------
(* GET /:id : read one *)

\* lines 111-123: findOne({ _id, userId }); product.metadata.views += 1
FindOne(s, u, id) ==
    LET r == Started("readOne", u)
        found == Match(store, id, u)
    IN
    /\ Arrives(s)
    /\ \A p \in found : p.views < MaxViews
    /\ IF found = {}
       THEN /\ resp' = NotFound(r)
            /\ UNCHANGED req
       ELSE LET product == CHOOSE p \in found : TRUE
            IN  /\ req' = [req EXCEPT ![s] =
                              [r EXCEPT !.pc = "saveViews",
                                        !.product = [product EXCEPT !.views = @ + 1]]]
                /\ resp' = NoResp
    /\ UNCHANGED <<store, nextId, cache>>
    /\ UNCHANGED <<sponsored, page>>

\* lines 123-128: product.save() writes the changed path (the view counter) to
\* the document with the product's _id; it rejects when that document is gone
SaveViews(s) ==
    LET r == req[s]
        stored == {p \in store : p._id = r.product._id}
    IN
    /\ r.pc = "saveViews"
    /\ IF stored = {}
       THEN /\ resp' = Failure(r, "store", FALSE)
            /\ UNCHANGED store
       ELSE /\ store' = (store \ stored)
                          \cup {[p EXCEPT !.views = r.product.views] : p \in stored}
            /\ resp' = Response(r, 200, FALSE, <<>>, r.product, TRUE)
    /\ req' = [req EXCEPT ![s] = Idle]
    /\ UNCHANGED <<nextId, cache>>
    /\ UNCHANGED <<arrived, sponsored, page>>

----------------------------------------------------------------------------
(* The environment of the handlers *)

\* The expiry given by setEx runs out
Expire(u) ==
    /\ cache[u] # NoEntry
    /\ cache' = [cache EXCEPT ![u] = NoEntry]
    /\ resp' = NoResp
    /\ UNCHANGED <<store, nextId, req>>
    /\ UNCHANGED <<arrived, sponsored, page>>

\* The clock advances by one step: every entry with an expiry loses that much
\* of it and is gone when nothing is left
Tick ==
    /\ \E u \in Users : cache[u] # NoEntry /\ cache[u].ttl > 0
    /\ cache' = [u \in Users |->
                    IF cache[u] = NoEntry \/ cache[u].ttl < 0 THEN cache[u]
                    ELSE IF cache[u].ttl - (Expiry \div MaxTicks) <= 0 THEN NoEntry
                    ELSE [cache[u] EXCEPT !.ttl = @ - (Expiry \div MaxTicks)]]
    /\ resp' = NoResp
    /\ UNCHANGED <<store, nextId, req>>
    /\ UNCHANGED <<arrived, sponsored, page>>

\* The process dies while a write handler is between its store mutation and
\* its redis.del: the delete never runs and nothing is answered
Crash(s) ==
    LET r == req[s] IN
    /\ r.pc = "del"
    /\ cache' = CachedAfterFailedDel(cache, s, r.userId)
    /\ req' = [HeldAfterDel(req, s, FALSE) EXCEPT ![s] = Idle]
    /\ resp' = NoResp
    /\ UNCHANGED <<store, nextId>>
    /\ UNCHANGED <<arrived, sponsored, page>>

----------------------------------------------------------------------------
(* GET /sponsored : values of the provider's records *)

\* A JavaScript value of a record field: undefined, null, a number, a string.
\* A number n is held as n * Scale; a string is a sequence of characters.
Scale == 10 ^ MaxDecimals
Undefined == [t |-> "undefined"]
NullValue == [t |-> "null"]
Num(n) == [t |-> "number", n |-> n]
Str(chars) == [t |-> "string", s |-> chars]

\* The truthiness the || operator tests
Truthy(v) ==
    CASE v.t = "number" -> v.n # 0
      [] v.t = "string" -> v.s # <<>>
      [] OTHER -> FALSE

\* a || b
Or(a, b) == IF Truthy(a) THEN a ELSE b

DigitChars == <<"0", "1", "2", "3", "4", "5", "6", "7", "8", "9">>
IsDigit(c) == \E d \in 1..10 : DigitChars[d] = c
DigitValue(c) == (CHOOSE d \in 1..10 : DigitChars[d] = c) - 1

\* The decimal digits of a natural number
RECURSIVE NatToString(_)
NatToString(n) ==
    IF n < 10 THEN <<DigitChars[n + 1]>>
    ELSE NatToString(n \div 10) \o <<DigitChars[(n % 10) + 1]>>

\* The digits after the point of a number held as frac / Scale, frac < scale,
\* without trailing zeros
RECURSIVE FractionToString(_, _)
FractionToString(frac, scale) ==
    IF frac = 0 THEN <<>>
    ELSE <<DigitChars[((frac * 10) \div scale) + 1]>>
             \o FractionToString((frac * 10) % scale, scale)

\* String(v) of a number or a string
StringOf(v) ==
    IF v.t = "string" THEN v.s
    ELSE LET a == IF v.n < 0 THEN -v.n ELSE v.n
             frac == FractionToString(a % Scale, Scale)
         IN  (IF v.n < 0 THEN <<"-">> ELSE <<>>)
                 \o NatToString(a \div Scale)
                 \o (IF frac = <<>> THEN <<>> ELSE <<".">> \o frac)

\* .replace(/[^0-9.\-]/g, ''): only digits, points and minus signs are kept
Strip(chars) == SelectSeq(chars, LAMBDA c : IsDigit(c) \/ c = "." \/ c = "-")

\* The longest run of digits at the head of a sequence of characters
RECURSIVE DigitRun(_)
DigitRun(chars) ==
    IF chars # <<>> /\ IsDigit(Head(chars))
    THEN <<Head(chars)>> \o DigitRun(Tail(chars))
    ELSE <<>>

\* The value of a run of digits read as a natural number
RECURSIVE DigitsValue(_)
DigitsValue(digits) ==
    IF digits = <<>> THEN 0
    ELSE DigitsValue(SubSeq(digits, 1, Len(digits) - 1)) * 10
             + DigitValue(digits[Len(digits)])

\* The value, times Scale, of a run of digits read after the decimal point
\* (runs of up to MaxDecimals digits are exact)
RECURSIVE FractionValue(_, _)
FractionValue(digits, unit) ==
    IF digits = <<>> \/ unit = 0 THEN 0
    ELSE DigitValue(Head(digits)) * unit + FractionValue(Tail(digits), unit \div 10)

\* parseFloat: an optional sign, digits, an optional point and digits, read
\* from the head of the string; whatever follows is ignored; NaN when no digit
\* is read
NaN == [t |-> "NaN"]
ParseFloat(chars) ==
    LET signed == chars # <<>> /\ Head(chars) \in {"-", "+"}
        body == IF signed THEN Tail(chars) ELSE chars
        whole == DigitRun(body)
        rest == SubSeq(body, Len(whole) + 1, Len(body))
        fraction == IF rest # <<>> /\ Head(rest) = "." THEN DigitRun(Tail(rest)) ELSE <<>>
        magnitude == DigitsValue(whole) * Scale + FractionValue(fraction, Scale \div 10)
    IN  IF whole = <<>> /\ fraction = <<>> THEN NaN
        ELSE Num(IF signed /\ Head(chars) = "-" THEN -magnitude ELSE magnitude)

\* lines 27-31: the price parsed from the chosen raw value
ParseValue(priceRaw) ==
    IF priceRaw # Undefined /\ priceRaw # NullValue
    THEN LET parsed == ParseFloat(Strip(StringOf(priceRaw)))
         IN  IF parsed # NaN THEN parsed ELSE NullValue
    ELSE NullValue

\* lines 26-31: the price of one provider record
ParsePrice(r) ==
    ParseValue(Or(Or(Or(r.price, r.extracted_price), r.price), NullValue))

\* lines 25-39: the item results.map(...) makes of one provider record
Normalize(r) ==
    [title  |-> Or(Or(Or(r.title, r.product_title), r.name), Str(<<>>)),
     url    |-> Or(Or(Or(Or(r.link, r.product_link), r.offer_link), r.source), Str(<<>>)),
     seller |-> Or(Or(Or(r.source, r.merchant), r.store), Str(<<>>)),
     price  |-> ParsePrice(r),
     raw    |-> r]

Items(results) == [i \in 1..Len(results) |-> Normalize(results[i])]

\* Math.min(a, b)
MathMin(a, b) == IF a <= b THEN a ELSE b

\* The fold keeps the first priced item's price
ReduceStepKeepFirst(acc, it) ==
    IF it.price = NullValue THEN acc
    ELSE IF acc = NullValue THEN it.price ELSE acc

\* lines 41-44: one step of items.reduce(..., null)
ReduceStep(acc, it) ==
    IF it.price = NullValue \/ it.price = Undefined THEN acc
    ELSE IF acc = NullValue THEN it.price ELSE Num(MathMin(acc.n, it.price.n))

\* lines 41-44: items.reduce((acc, it) => ..., null), a left fold
RECURSIVE LowestPrice(_)
LowestPrice(items) ==
    IF items = <<>> THEN NullValue
    ELSE ReduceStep(LowestPrice(SubSeq(items, 1, Len(items) - 1)), items[Len(items)])

----------------------------------------------------------------------------
(* GET /sponsored : the handler *)

\* req.query.q as requests send it: missing, or a string
Queries ==
    {Undefined, Str(<<>>), Str(<<" ">>), Str(<<" ", " ">>),
     Str(<<"a">>), Str(<<" ", "a">>), Str(<<"a", " ">>)}

IsSpace(c) == c = " "

\* String.prototype.trim()
RECURSIVE TrimLeft(_)
TrimLeft(chars) ==
    IF chars # <<>> /\ IsSpace(Head(chars)) THEN TrimLeft(Tail(chars)) ELSE chars

RECURSIVE TrimRight(_)
TrimRight(chars) ==
    IF chars # <<>> /\ IsSpace(chars[Len(chars)])
    THEN TrimRight(SubSeq(chars, 1, Len(chars) - 1))
    ELSE chars

Trim(chars) == TrimRight(TrimLeft(chars))

\* line 15: (req.query.q || '').trim()
QueryOf(q) == Trim(Or(q, Str(<<>>)).s)

\* The prices a provider record carries in its price and extracted_price fields
RawPrices ==
    {Undefined, Num(0), Num(8 * Scale),
     Str(<<"$", "1", "2", ".", "5", "0">>), Str(<<"-", "3">>), Str(<<"n", "/", "a">>),
     Str(<<"R", "s", ".", "4", "9">>)}
RawExtractedPrices == {Undefined, Num(8 * Scale), Num(3 * Scale)}
\* A provider record with none of the fields the handler reads
EmptyRecord ==
    [title |-> Undefined, product_title |-> Undefined, name |-> Undefined,
     link |-> Undefined, product_link |-> Undefined, offer_link |-> Undefined,
     source |-> Undefined, merchant |-> Undefined, store |-> Undefined,
     price |-> Undefined, extracted_price |-> Undefined]
PricedRecord(price, extracted) ==
    [EmptyRecord EXCEPT !.price = price, !.extracted_price = extracted]

\* Records that differ in their descriptive fields: every field present, the
\* first candidates present but empty, only the last candidates present
DescribedRecords ==
    {[EmptyRecord EXCEPT !.title = Str(<<"A">>), !.product_title = Str(<<"B">>),
                         !.name = Str(<<"N">>), !.link = Str(<<"k">>),
                         !.product_link = Str(<<"l">>), !.source = Str(<<"s">>),
                         !.merchant = Str(<<"m">>)],
     [EmptyRecord EXCEPT !.title = Str(<<>>), !.product_title = Str(<<"B">>),
                         !.link = Str(<<>>), !.product_link = Str(<<"l">>),
                         !.source = Str(<<>>), !.merchant = Str(<<"m">>)],
     [EmptyRecord EXCEPT !.name = Str(<<"N">>), !.offer_link = Str(<<"o">>),
                         !.store = Str(<<"t">>)]}

RawRecords ==
    {PricedRecord(p, e) : p \in RawPrices, e \in RawExtractedPrices}
        \cup DescribedRecords

\* resp.data?.shopping_results as the provider answers: absent, or the records
RECURSIVE SeqsUpTo(_, _)
SeqsUpTo(S, n) ==
    IF n = 0 THEN {<<>>}
    ELSE LET shorter == SeqsUpTo(S, n - 1)
         IN  shorter \cup {Append(q, x) : q \in shorter, x \in S}
Array(elements) == [t |-> "array", a |-> elements]
ShoppingResults == {Undefined} \cup {Array(a) : a \in SeqsUpTo(RawRecords, MaxResults)}

NoSponsoredResp ==
    [status |-> 0, message |-> "", items |-> <<>>, lowestPrice |-> NullValue]

\* The handler before a request: apiKey tells whether SERPAPI_API_KEY is set
SponsoredIdle(apiKey) ==
    [pc |-> "idle", q |-> Undefined, apiKey |-> apiKey, calls |-> 0,
     resp |-> NoSponsoredResp]

\* The credential is looked at before the query
RejectionKeyFirst(q, apiKey) ==
    IF ~apiKey
    THEN [status |-> 500, message |-> "SERPAPI_API_KEY not configured on server"]
    ELSE IF QueryOf(q) = <<>>
    THEN [status |-> 400, message |-> "Missing query parameter q"]
    ELSE [status |-> 0, message |-> ""]

\* lines 15-19: the checks made before the external call; status 0 when the
\* request passes them
Rejection(q, apiKey) ==
    IF QueryOf(q) = <<>>
    THEN [status |-> 400, message |-> "Missing query parameter q"]
    ELSE IF ~apiKey
    THEN [status |-> 500, message |-> "SERPAPI_API_KEY not configured on server"]
    ELSE [status |-> 0, message |-> ""]

\* lines 13-22: a request with query q arrives; it is rejected, or axios.get
\* is issued
SponsoredRequest(q) ==
    LET rejection == Rejection(q, sponsored.apiKey) IN
    /\ sponsored.pc \in {"idle", "done"}
    /\ sponsored' =
          IF rejection.status # 0
          THEN [sponsored EXCEPT !.pc = "done", !.q = q, !.calls = 0,
                    !.resp = [NoSponsoredResp EXCEPT !.status = rejection.status,
                                                     !.message = rejection.message]]
          ELSE [sponsored EXCEPT !.pc = "axios", !.q = q, !.calls = 1,
                                 !.resp = NoSponsoredResp]
    /\ UNCHANGED <<store, nextId, cache, req, arrived, resp, page>>

\* lines 22-46: axios.get answers with the provider's response
SponsoredAnswer(results) ==
    LET items == Items(IF results = Undefined THEN <<>> ELSE results.a) IN
    /\ sponsored.pc = "axios"
    /\ sponsored' =
          [sponsored EXCEPT !.pc = "done",
               !.resp = [status |-> 200, message |-> "", items |-> items,
                         lowestPrice |-> LowestPrice(items)]]
    /\ UNCHANGED <<store, nextId, cache, req, arrived, resp, page>>

\* lines 22, 47-50: axios.get rejects (failure or timeout)
SponsoredFailure ==
    /\ sponsored.pc = "axios"
    /\ sponsored' =
          [sponsored EXCEPT !.pc = "done",
               !.resp = [NoSponsoredResp EXCEPT
                            !.status = 500,
                            !.message = "Error fetching sponsored results"]]
    /\ UNCHANGED <<store, nextId, cache, req, arrived, resp, page>>

----------------------------------------------------------------------------
(* The search page (SearchProduct.jsx) *)

Infinity == [t |-> "Infinity"]

\* What the page shows of a product or an offer
Shown(name, platform, url, currentPrice, isSponsored) ==
    [name |-> name, platform |-> platform, url |-> url,
     currentPrice |-> currentPrice, sponsored |-> isSponsored]

\* The listings productsAPI.getAll() answers with
PageProducts ==
    LET a == Shown(Str(<<"a">>), Str(<<"x">>), Str(<<"u">>), Num(5 * Scale), FALSE)
        b == Shown(Str(<<"B">>), Str(<<"y">>), Str(<<"v">>), Num(9 * Scale), FALSE)
    IN  {<<>>, <<a>>, <<a, b>>}

\* The items productsAPI.getSponsored(q) answers with
PageItems ==
    LET cheap == [title |-> Str(<<"A">>), seller |-> Str(<<"s">>), url |-> Str(<<"w">>),
                  price |-> Num(3 * Scale)]
        unpriced == [title |-> Str(<<>>), seller |-> Str(<<>>), url |-> Str(<<>>),
                     price |-> NullValue]
    IN  {<<>>, <<cheap>>, <<unpriced>>, <<unpriced, cheap>>}

\* What the user types in the search box
PageQueries == {<<>>, <<"a">>, <<" ", "b">>, <<"z">>}

\* The page after its first render: useEffect has called fetchProducts
PageMounted ==
    [query |-> <<>>, products |-> <<>>, results |-> <<>>, loading |-> TRUE,
     lowestPrice |-> NullValue, fetching |-> TRUE, searching |-> FALSE,
     q |-> <<>>, filtered |-> <<>>, searches |-> 0]

\* lines 35-43: safePrice(p); of the candidate fields the shown records carry
\* currentPrice only
RECURSIVE FirstParsed(_)
FirstParsed(candidates) ==
    IF candidates = <<>> THEN Infinity
    ELSE LET n == ParseValue(Head(candidates))
         IN  IF n # NullValue THEN n ELSE FirstParsed(Tail(candidates))

SafePrice(p) ==
    FirstParsed(<<p.currentPrice, Undefined, Undefined, Undefined, Undefined, Undefined>>)

\* p < acc on numbers and Infinity
LessThan(p, acc) ==
    IF p = Infinity THEN FALSE ELSE IF acc = Infinity THEN TRUE ELSE p.n < acc.n

\* lines 50-53: list.reduce((acc, item) => ..., Infinity)
RECURSIVE MinSafePrice(_)
MinSafePrice(list) ==
    IF list = <<>> THEN Infinity
    ELSE LET acc == MinSafePrice(SubSeq(list, 1, Len(list) - 1))
             p == SafePrice(list[Len(list)])
         IN  IF LessThan(p, acc) THEN p ELSE acc

\* lines 45-55: the value computeLowest(list) gives to setLowestPrice
ComputeLowest(list) ==
    IF list = <<>> THEN NullValue
    ELSE LET min == MinSafePrice(list)
         IN  IF min # Infinity THEN min ELSE NullValue

\* String.prototype.toLowerCase() on the letters the page meets
LowerCase(c) ==
    CASE c = "A" -> "a"
      [] c = "B" -> "b"
      [] OTHER -> c
ToLowerCase(chars) == [i \in 1..Len(chars) |-> LowerCase(chars[i])]

\* String.prototype.includes(sub)
Includes(chars, sub) ==
    \E i \in 0..(Len(chars) - Len(sub)) : SubSeq(chars, i + 1, i + Len(sub)) = sub

\* lines 63-74: the local filter of handleSearch
Filtered(products, q) ==
    IF q = <<>> THEN products
    ELSE LET qlc == ToLowerCase(q)
         IN  SelectSeq(products,
                 LAMBDA p : \/ Includes(ToLowerCase(Or(p.name, Str(<<>>)).s), qlc)
                            \/ Includes(ToLowerCase(Or(p.platform, Str(<<>>)).s), qlc)
                            \/ Includes(ToLowerCase(Or(p.url, Str(<<>>)).s), qlc))

\* lines 81-88: the record shown for a sponsored item
SponsoredShown(it) ==
    Shown(Or(it.title, Str(<<"S", "p", "o", "n", "s", "o", "r", "e", "d">>)),
          Or(it.seller, Str(<<"S", "p", "o", "n", "s", "o", "r", "e", "d">>)),
          Or(it.url, Str(<<"#">>)),
          it.price, TRUE)

PageFrame == UNCHANGED <<store, nextId, cache, req, arrived, resp, sponsored>>

\* lines 17-24, 30-32: productsAPI.getAll() answers with the listing all
FetchAnswered(all) ==
    /\ page.fetching
    /\ page' = [page EXCEPT !.products = all, !.results = all,
                            !.lowestPrice = ComputeLowest(all),
                            !.loading = FALSE, !.fetching = FALSE]
    /\ PageFrame

\* lines 25-32: productsAPI.getAll() rejects
FetchFailed ==
    /\ page.fetching
    /\ page' = [page EXCEPT !.products = <<>>, !.results = <<>>,
                            !.lowestPrice = NullValue,
                            !.loading = FALSE, !.fetching = FALSE]
    /\ PageFrame

\* line 127: onChange, the user edits the search box
SetQuery(q) ==
    /\ page.query # q
    /\ page' = [page EXCEPT !.query = q]
    /\ PageFrame

\* lines 57-79: the form is submitted: the products are filtered and
\* productsAPI.getSponsored is called
HandleSearch ==
    /\ ~page.searching
    /\ page.searches < MaxSearches
    /\ page' = [page EXCEPT !.loading = TRUE, !.searching = TRUE,
                            !.q = Trim(page.query),
                            !.filtered = Filtered(page.products, Trim(page.query)),
                            !.searches = @ + 1]
    /\ PageFrame

\* lines 94-96, 101-102: the sponsored offers are put before the filtered
\* products, shown, and the lowest price is computed over what is shown
ShowCombined(sponsoredItems) ==
    LET combined == sponsoredItems \o page.filtered IN
    [page EXCEPT !.results = combined,
                 !.lowestPrice = ComputeLowest(combined),
                 !.loading = FALSE, !.searching = FALSE,
                 !.filtered = <<>>, !.q = <<>>]

\* lines 79-88: productsAPI.getSponsored answers with items; the server
\* answers so only when the query it was sent is not blank
SearchAnswered(items) ==
    /\ page.searching
    /\ page.q # <<>>
    /\ page' = ShowCombined([i \in 1..Len(items) |-> SponsoredShown(items[i])])
    /\ PageFrame

\* lines 89-92: productsAPI.getSponsored rejects
SearchFailed ==
    /\ page.searching
    /\ page' = ShowCombined(<<>>)
    /\ PageFrame

\* lines 105-108: clearSearch
ClearSearch ==
    /\ page.query # <<>> \/ page.results # page.products
    /\ page' = [page EXCEPT !.query = <<>>, !.results = page.products]
    /\ PageFrame

----------------------------------------------------------------------------
(* The products API: any number of handlers in flight, cache calls may reject *)

Init ==
    /\ store = {}
    /\ nextId = 1
    /\ cache = [u \in Users |-> NoEntry]
    /\ req = [s \in Slots |-> Idle]
    /\ resp = NoResp
    /\ arrived = 0
    /\ sponsored = SponsoredIdle(FALSE)
    /\ page = PageMounted

Next ==
    \/ \E s \in ArrivalSlots, u \in Users, ok \in BOOLEAN : CacheGet(s, u, ok)
    \/ \E s \in ArrivalSlots, u \in Users : ListNoCache(s, u)
    \/ \E s \in Slots : StoreFind(s)
    \/ \E s \in Slots, ok \in BOOLEAN : SetEx(s, ok)
    \/ \E s \in ArrivalSlots, u \in Users, name \in Names, priceData \in ScrapeOutcomes :
          Scrape(s, u, name, priceData)
    \/ \E s \in Slots, redis \in BOOLEAN : Save(s, redis)
    \/ \E s \in ArrivalSlots, u \in Users, id \in Ids, body \in Bodies, redis \in BOOLEAN :
          Update(s, u, id, body, redis)
    \/ \E s \in ArrivalSlots, u \in Users, id \in Ids, redis \in BOOLEAN :
          Delete(s, u, id, redis)
    \/ \E s \in Slots, ok \in BOOLEAN : Del(s, ok)
    \/ \E s \in ArrivalSlots, u \in Users, id \in Ids : FindOne(s, u, id)
    \/ \E s \in Slots : SaveViews(s)
    \/ \E u \in Users : Expire(u)

Spec == Init /\ [][Next]_vars

----------------------------------------------------------------------------
(* The same handlers, one request at a time, every cache call answering:   *)
(* what is left of the environment is whether getRedisClient() returns a   *)
(* client, request by request                                              *)

Quiet == \A t \in Slots : req[t].pc = "idle"

NextDegraded ==
    \/ \E s \in ArrivalSlots, u \in Users : Quiet /\ CacheGet(s, u, TRUE)
    \/ \E s \in ArrivalSlots, u \in Users : Quiet /\ ListNoCache(s, u)
    \/ \E s \in Slots : StoreFind(s)
    \/ \E s \in Slots : SetEx(s, TRUE)
    \/ \E s \in ArrivalSlots, u \in Users, name \in Names, priceData \in ScrapeOutcomes :
          Quiet /\ Scrape(s, u, name, priceData)
    \/ \E s \in Slots, redis \in BOOLEAN : Save(s, redis)
    \/ \E s \in ArrivalSlots, u \in Users, id \in Ids, body \in Bodies, redis \in BOOLEAN :
          Quiet /\ Update(s, u, id, body, redis)
    \/ \E s \in ArrivalSlots, u \in Users, id \in Ids, redis \in BOOLEAN :
          Quiet /\ Delete(s, u, id, redis)
    \/ \E s \in Slots : Del(s, TRUE)
    \/ \E s \in ArrivalSlots, u \in Users, id \in Ids : Quiet /\ FindOne(s, u, id)
    \/ \E s \in Slots : SaveViews(s)
    \/ \E u \in Users : Expire(u)

SpecDegraded == Init /\ [][NextDegraded]_vars

----------------------------------------------------------------------------
(* The handlers, one request at a time, with the clock of the cache and    *)
(* crashes of the process: an entry expires MaxTicks steps of the clock    *)
(* after its setEx, and time keeps passing                                 *)

NextExpiry ==
    \/ \E s \in ArrivalSlots, u \in Users, ok \in BOOLEAN : Quiet /\ CacheGet(s, u, ok)
    \/ \E s \in ArrivalSlots, u \in Users : Quiet /\ ListNoCache(s, u)
    \/ \E s \in Slots : StoreFind(s)
    \/ \E s \in Slots, ok \in BOOLEAN : SetEx(s, ok)
    \/ \E s \in ArrivalSlots, u \in Users, name \in Names, priceData \in ScrapeOutcomes :
          Quiet /\ Scrape(s, u, name, priceData)
    \/ \E s \in Slots, redis \in BOOLEAN : Save(s, redis)
    \/ \E s \in ArrivalSlots, u \in Users, id \in Ids, body \in Bodies, redis \in BOOLEAN :
          Quiet /\ Update(s, u, id, body, redis)
    \/ \E s \in ArrivalSlots, u \in Users, id \in Ids, redis \in BOOLEAN :
          Quiet /\ Delete(s, u, id, redis)
    \/ \E s \in Slots, ok \in BOOLEAN : Del(s, ok)
    \/ \E s \in ArrivalSlots, u \in Users, id \in Ids : Quiet /\ FindOne(s, u, id)
    \/ \E s \in Slots : SaveViews(s)
    \/ \E s \in Slots : Crash(s)
    \/ Tick

SpecExpiry == Init /\ [][NextExpiry]_vars /\ WF_vars(Tick)

----------------------------------------------------------------------------
(* Sponsored search: requests served one after the other, the credential   *)
(* set or not at start-up                                                  *)

InitSponsored ==
    /\ store = {}
    /\ nextId = 1
    /\ cache = [u \in Users |-> NoEntry]
    /\ req = [s \in Slots |-> Idle]
    /\ resp = NoResp
    /\ arrived = 0
    /\ \E apiKey \in BOOLEAN : sponsored = SponsoredIdle(apiKey)
    /\ page = PageMounted

NextSponsored ==
    \/ \E q \in Queries : SponsoredRequest(q)
    \/ \E results \in ShoppingResults : SponsoredAnswer(results)
    \/ SponsoredFailure

SpecSponsored == InitSponsored /\ [][NextSponsored]_vars

----------------------------------------------------------------------------
(* The search page: the first fetch, then searches and clears, each search *)
(* answered before the next is submitted                                   *)

InitPage ==
    /\ store = {}
    /\ nextId = 1
    /\ cache = [u \in Users |-> NoEntry]
    /\ req = [s \in Slots |-> Idle]
    /\ resp = NoResp
    /\ arrived = 0
    /\ sponsored = SponsoredIdle(FALSE)
    /\ page = PageMounted

NextPage ==
    \/ \E all \in PageProducts : FetchAnswered(all)
    \/ FetchFailed
    \/ \E q \in PageQueries : SetQuery(q)
    \/ HandleSearch
    \/ \E items \in PageItems : SearchAnswered(items)
    \/ SearchFailed
    \/ ClearSearch

SpecPage == InitPage /\ [][NextPage]_vars

----------------------------------------------------------------------------
(* Properties of the product cache gate *)

\* C1: after a write (create, update or delete) of user u has completed, a
\* list read of u that arrives later is never answered from the cache with a
\* listing that was read from the store before that write changed it.
C1_NoHitOnEntryOlderThanWrite ==
    [][\A u \in Users :
          (resp'.kind = "list" /\ resp'.cached /\ resp'.userId = u)
              => ~cache[u].beforeWrite]_vars

\* C2: with reads and writes interleaved call by call, once a write's store
\* mutation and its cache delete have both run, the cache holds no listing
\* that was read from the store before that write's mutation.
C2_NoSnapshotOutlivesWrite ==
    \A u \in Users : cache[u] # NoEntry => ~cache[u].preWrite

\* A listing with the view counters left out
StripViews(products) ==
    [i \in 1..Len(products) |-> [products[i] EXCEPT !.views = 0]]

\* C3: with requests served one after the other, getRedisClient() returning a
\* client for some and none for others, no list read returns a listing that
\* misses a write (create, update, delete) completed before the read started:
\* the listing it answers with is the store's listing.
C3_NoStaleListWhenCacheComesAndGoes ==
    (resp.kind = "list" /\ resp.status = 200)
        => StripViews(resp.products) = StripViews(Find(store, resp.userId))

----------------------------------------------------------------------------
(* Properties of the store *)

\* The products a user owns
Owned(st, u) == {p \in st : p.userId = u}

\* The step is one of a handler run for user u
StepOf(u) ==
    \/ resp' # NoResp /\ resp'.userId = u
    \/ resp' = NoResp /\ \E s \in Slots : req'[s].pc # req[s].pc /\ req'[s].userId = u

\* C4: no step of a request of user u changes the set or the contents of the
\* products another user owns, and no response to u carries a product that
\* another user owns.
C4_NoCrossUserAccess ==
    [][\A u \in Users :
          StepOf(u) =>
              /\ \A v \in Users \ {u} : Owned(store', v) = Owned(store, v)
              /\ resp'.product # Null => resp'.product.userId = u
              /\ \A i \in 1..Len(resp'.products) : resp'.products[i].userId = u]_vars

\* C5: every stored product with a non-empty price history has currentPrice
\* equal to the price of its most recent history entry.
C5_CurrentPriceIsLastHistoryPrice ==
    \A p \in store :
        p.priceHistory # <<>> => p.currentPrice = p.priceHistory[Len(p.priceHistory)]

\* C6: creation never fails because scraping failed: POST / never answers
\* with an error status whose cause is the scraping collaborator.
C6_ScrapeFailureNeverFailsCreate ==
    ~(resp.kind = "create" /\ resp.status = 500 /\ resp.error = "scrape")

\* C7: when the scrape of a create succeeded with price p (0 included), the
\* document its save inserts has currentPrice p and a price history of exactly
\* one entry, of price p.
C7_ScrapedPriceSeedsProduct ==
    [][\A s \in Slots :
          (req[s].pc = "save" /\ req'[s].pc # "save" /\ req[s].priceData # Null)
              => \E p \in store' \ store :
                    /\ p.currentPrice = req[s].priceData.price
                    /\ p.priceHistory = <<req[s].priceData.price>>]_vars

\* A create whose scrape returned price 0 has been stored and answered 201
C7_Witness ==
    /\ resp.kind = "create" /\ resp.status = 201
    /\ resp.product \in store
    /\ resp.product.currentPrice = 0
    /\ resp.product.priceHistory = <<0>>

\* C8: a failing cache call never turns into an error status: no response is
\* an error whose cause is a cache call (get, setEx, del).
C8_CacheFailureNeverSurfaces ==
    ~(resp.status = 500 /\ resp.error = "cache")

----------------------------------------------------------------------------
(* Sponsored search: error classification and the lowest price *)

\* A query that is missing, empty or made of spaces only
IsBlank(q) == q = Undefined \/ \A i \in 1..Len(q.s) : q.s[i] = " "

\* C9: sponsored search classifies its errors in a fixed order: a missing,
\* empty or whitespace-only query is answered 400 with the client-input
\* message and no external call, whether or not the credential is set; a
\* non-blank query without the credential is answered 500 with the
\* configuration message and no external call; only with both is the external
\* API called, exactly once, and its failure is answered 500 with the fetch
\* message, which differs from the other two messages.
C9_SponsoredErrorsInFixedOrder ==
    /\ sponsored.calls \in {0, 1}
    /\ sponsored.calls = 1 => ~IsBlank(sponsored.q) /\ sponsored.apiKey
    /\ sponsored.pc = "done" =>
          IF IsBlank(sponsored.q)
          THEN /\ sponsored.resp.status = 400
               /\ sponsored.resp.message = "Missing query parameter q"
               /\ sponsored.calls = 0
          ELSE IF ~sponsored.apiKey
          THEN /\ sponsored.resp.status = 500
               /\ sponsored.resp.message = "SERPAPI_API_KEY not configured on server"
               /\ sponsored.calls = 0
          ELSE /\ sponsored.calls = 1
               /\ \/ sponsored.resp.status = 200
                  \/ /\ sponsored.resp.status = 500
                     /\ sponsored.resp.message = "Error fetching sponsored results"
                     /\ sponsored.resp.message
                           \notin {"Missing query parameter q",
                                   "SERPAPI_API_KEY not configured on server"}

\* A whitespace-only query, sent while the credential is not set, has been
\* answered as a client-input error without an external call
C9_Witness ==
    /\ sponsored.pc = "done"
    /\ sponsored.q = Str(<<" ">>)
    /\ ~sponsored.apiKey
    /\ sponsored.resp.status = 400
    /\ sponsored.calls = 0

\* The prices of the items that have one
PricesOf(items) ==
    {items[i].price.n : i \in {j \in 1..Len(items) : items[j].price # NullValue}}

\* C10: the lowestPrice of a 200 answer is null when there are no items or
\* every item's price is null, and otherwise the arithmetic minimum of the
\* non-null prices, whatever the order of the items.
C10_LowestPriceIsMinimum ==
    (sponsored.pc = "done" /\ sponsored.resp.status = 200) =>
        LET prices == PricesOf(sponsored.resp.items) IN
        sponsored.resp.lowestPrice =
            IF prices = {} THEN NullValue
            ELSE Num(CHOOSE m \in prices : \A n \in prices : m <= n)

\* Two results priced "$12.50" and extracted_price 8, in this order, have been
\* answered with lowestPrice 8
C10_Witness ==
    /\ sponsored.pc = "done"
    /\ sponsored.resp.status = 200
    /\ Len(sponsored.resp.items) = 2
    /\ sponsored.resp.items[1].raw.price = Str(<<"$", "1", "2", ".", "5", "0">>)
    /\ sponsored.resp.items[1].price = Num(1250 * (Scale \div 100))
    /\ sponsored.resp.items[2].raw = PricedRecord(Undefined, Num(8 * Scale))
    /\ sponsored.resp.items[2].price = Num(8 * Scale)
    /\ sponsored.resp.lowestPrice = Num(8 * Scale)

----------------------------------------------------------------------------
(* Properties of the price parser and the offer normalizer *)

\* The positions of the digits of a string
DigitPositions(chars) == {i \in 1..Len(chars) : IsDigit(chars[i])}

\* The text from the first digit of a string to its last one
DigitSpan(chars) ==
    LET P == DigitPositions(chars)
        first == CHOOSE i \in P : \A j \in P : i <= j
        last == CHOOSE i \in P : \A j \in P : j <= i
    IN  SubSeq(chars, first, last)

\* The string holds exactly one numeric run: from its first digit to its last
\* there are digits only, or digits, one point and digits
HasOneNumericRun(chars) ==
    /\ DigitPositions(chars) # {}
    /\ LET span == DigitSpan(chars)
           points == {i \in 1..Len(span) : span[i] = "."}
       IN  /\ \A i \in 1..Len(span) : IsDigit(span[i]) \/ span[i] = "."
           /\ Cardinality(points) <= 1

\* The number, times Scale, that the one numeric run of a string denotes; a
\* minus sign right before the run belongs to it
NumericRunValue(chars) ==
    LET P == DigitPositions(chars)
        first == CHOOSE i \in P : \A j \in P : i <= j
        span == DigitSpan(chars)
        points == {i \in 1..Len(span) : span[i] = "."}
        point == IF points = {} THEN Len(span) + 1 ELSE CHOOSE i \in points : TRUE
        magnitude == DigitsValue(SubSeq(span, 1, point - 1)) * Scale
                        + FractionValue(SubSeq(span, point + 1, Len(span)), Scale \div 10)
    IN  IF first > 1 /\ chars[first - 1] = "-" THEN -magnitude ELSE magnitude

\* C11: the price parser is exact on single numeric runs and total: an item
\* whose price text holds exactly one numeric run, whatever surrounds it, gets
\* that run's number as its price, and an item whose price text holds no digit
\* gets null.
C11_ParserExactOnSingleRun ==
    (sponsored.pc = "done" /\ sponsored.resp.status = 200) =>
        \A i \in 1..Len(sponsored.resp.items) :
            LET it == sponsored.resp.items[i] IN
            (it.raw.price.t = "string" /\ it.raw.price.s # <<>>) =>
                /\ HasOneNumericRun(it.raw.price.s)
                      => it.price = Num(NumericRunValue(it.raw.price.s))
                /\ DigitPositions(it.raw.price.s) = {} => it.price = NullValue

\* The first candidate that is present, or the default when none is
RECURSIVE FirstPresent(_, _)
FirstPresent(candidates, default) ==
    IF candidates = <<>> THEN default
    ELSE IF Head(candidates) # Undefined THEN Head(candidates)
    ELSE FirstPresent(Tail(candidates), default)

\* C12: every field of an item is resolved by priority, the first present
\* candidate winning even when its value is 0 or the empty string: title from
\* title, product_title, name; url from link, product_link, offer_link,
\* source; seller from source, merchant, store (each else the empty string);
\* price from the parser applied to the first present of price,
\* extracted_price (else null).
C12_FirstPresentCandidateWins ==
    (sponsored.pc = "done" /\ sponsored.resp.status = 200) =>
        \A i \in 1..Len(sponsored.resp.items) :
            LET it == sponsored.resp.items[i]
                r == it.raw
            IN  /\ it.title = FirstPresent(<<r.title, r.product_title, r.name>>, Str(<<>>))
                /\ it.url = FirstPresent(<<r.link, r.product_link, r.offer_link, r.source>>,
                                         Str(<<>>))
                /\ it.seller = FirstPresent(<<r.source, r.merchant, r.store>>, Str(<<>>))
                /\ it.price = ParseValue(FirstPresent(<<r.price, r.extracted_price>>, NullValue))

----------------------------------------------------------------------------
(* Properties of the list read and of the handlers' steps *)

\* C13: a list read that misses is answered from the store without the cached
\* tag and stores the listing it returns; a list read that starts right after
\* it for the same user, with a client and no write in between, is answered
\* from the cache, tagged cached, with the very listing the first returned;
\* the cached tag is on a response only when the key held an entry.
C13_SecondReadServedFromCache ==
    [][/\ \A s \in Slots :
            (req[s].pc = "setEx" /\ req'[s].pc = "idle" /\ resp'.status = 200) =>
                /\ ~resp'.cached
                /\ resp'.products = req[s].products
                /\ cache'[req[s].userId] # NoEntry
                /\ JsonParse(cache'[req[s].userId].data) = resp'.products
       /\ resp'.cached =>
            /\ resp'.kind = "list"
            /\ cache[resp'.userId] # NoEntry
       /\ ( /\ resp.kind = "list" /\ resp.status = 200 /\ resp.client /\ ~resp.cached
            /\ arrived' = arrived + 1
            /\ resp'.kind = "list" /\ resp'.status = 200 /\ resp'.client
            /\ resp'.userId = resp.userId )
            => resp'.cached /\ resp'.products = resp.products]_vars

\* A list read has been answered from the cache with a listing that holds a
\* product
C13_Witness ==
    /\ resp.kind = "list" /\ resp.status = 200 /\ resp.cached
    /\ resp.products # <<>>
    /\ resp.products = Find(store, resp.userId)

\* C14: every request that changes a stored product invalidates: the step
\* that changes the store is one of a handler that goes on to redis.del for
\* its user, or of a write that found no Redis client, or the user's key held
\* no listing; this includes the view-counter increment of GET /:id.
C14_EveryMutationInvalidates ==
    [][store' # store =>
          \/ \E s \in Slots : req[s].pc # "del" /\ req'[s].pc = "del"
          \/ resp'.kind \in {"create", "update", "delete"}
          \/ cache[resp'.userId] = NoEntry]_vars

\* One sequence is the beginning of the other
IsPrefix(h, k) == Len(h) <= Len(k) /\ SubSeq(k, 1, Len(h)) = h

\* C15: a product's price history is append-only: no step removes, reorders
\* or rewrites an entry, so the history a product has before a step is a
\* prefix of the one it has after it, as long as the product is stored.
C15_PriceHistoryAppendOnly ==
    [][\A p \in store : \A q \in store' :
          p._id = q._id => IsPrefix(p.priceHistory, q.priceHistory)]_vars

Writes == {"create", "update", "delete"}

\* C16: in create, update and delete the store mutation comes first and the
\* delete of the acting user's key is issued only after it and only when it
\* was applied; an entry leaves the cache only by such a delete (or by its
\* expiry); a value enters the cache only by the populate of a list read.
C16_MutationBeforeDelete ==
    [][/\ \A s \in Slots :
            (req[s].pc # "del" /\ req'[s].pc = "del") =>
                /\ req'[s].kind \in Writes
                /\ IF req'[s].kind = "delete"
                   THEN \E p \in store \ store' : p.userId = req'[s].userId
                   ELSE req'[s].product \in store'
       /\ resp'.status = 404 => cache' = cache /\ \A s \in Slots : req'[s].pc = "del" => req[s].pc = "del"
       /\ \A u \in Users :
            (cache[u] # NoEntry /\ cache'[u] = NoEntry) =>
                \/ \E s \in Slots : /\ req[s].pc = "del" /\ req[s].kind \in Writes
                                    /\ req[s].userId = u /\ req'[s].pc = "idle"
                \/ req' = req
       /\ \A u \in Users :
            (cache'[u] # NoEntry /\ (cache[u] = NoEntry \/ cache'[u].data # cache[u].data)) =>
                \E s \in Slots : /\ req[s].pc = "setEx" /\ req[s].kind = "list"
                                 /\ req[s].userId = u /\ req'[s].pc = "idle"]_vars

\* A delete has removed the user's only product and is about to delete the
\* key, which still holds a listing
C16_Witness ==
    \E s \in Slots :
        /\ req[s].pc = "del" /\ req[s].kind = "delete"
        /\ Owned(store, req[s].userId) = {}
        /\ cache[req[s].userId] # NoEntry
        /\ cache[req[s].userId].data # <<>>

\* The listing cached for a user, when there is one, is the store's
NoStaleEntry == \A u \in Users : cache[u] # NoEntry => JsonParse(cache[u].data) = Find(store, u)

\* C17: staleness is bounded: an entry gets its expiry (300 seconds) only in
\* the populate of a list read, a cache hit leaves the entry and its expiry as
\* they are, and so, even when a write crashed between its store mutation and
\* its delete, once the writes have stopped the cache eventually holds no
\* listing that differs from the store, and list reads return the store's
\* content from then on.
C17_StalenessIsBounded ==
    /\ [][\A u \in Users :
            (cache'[u] # NoEntry /\ (cache[u] = NoEntry \/ cache'[u].ttl > cache[u].ttl)) =>
                /\ cache'[u].ttl = Expiry
                /\ \E s \in Slots : /\ req[s].pc = "setEx" /\ req[s].kind = "list"
                                    /\ req[s].userId = u /\ req'[s].pc = "idle"]_vars
    /\ [][resp'.cached => cache' = cache]_vars
    /\ <>[]NoStaleEntry

\* A write has crashed before its delete, and the listing it left in the
\* cache, which misses the write, has used up part of its expiry
C17_Witness ==
    \E u \in Users :
        /\ cache[u] # NoEntry
        /\ cache[u].beforeWrite
        /\ cache[u].ttl > 0 /\ cache[u].ttl < Expiry
        /\ JsonParse(cache[u].data) # Find(store, u)
        /\ \A s \in Slots : req[s].pc = "idle"

\* The handlers that can answer 404
ById == {"update", "delete", "readOne"}

\* A request of one of these handlers arrives in the step, for a user who owns
\* no product
ArrivesForNothing ==
    /\ arrived' = arrived + 1
    /\ IF resp' # NoResp
       THEN resp'.kind \in ById /\ Owned(store, resp'.userId) = {}
       ELSE \E s \in Slots : /\ req[s].pc = "idle" /\ req'[s].pc # "idle"
                             /\ req'[s].kind \in ById
                             /\ Owned(store, req'[s].userId) = {}

\* C18: an update, delete or read-one whose id names no product of the acting
\* user is answered 404 and has no side effect: the store (the view counters
\* included) and the cache are as they were; and a 404 is never the answer of
\* a step that changed either.
C18_NotFoundHasNoSideEffects ==
    [][/\ ArrivesForNothing =>
            /\ resp'.status = 404
            /\ store' = store /\ cache' = cache /\ req' = req
       /\ resp'.status = 404 =>
            /\ resp'.kind \in ById
            /\ store' = store /\ cache' = cache /\ req' = req]_vars

\* User u has been answered 404 for the id of a product that v owns, while
\* u's key held a listing; the product and the listing are still there
C18_Witness ==
    /\ resp.status = 404 /\ resp.userId = "u" /\ resp.kind \in {"update", "delete"}
    /\ \E p \in store : p.userId = "v"
    /\ Owned(store, "u") = {}
    /\ cache["u"] # NoEntry

\* C19: read-one counts every read and changes the view counter only: the
\* step in which a GET /:id is answered with its product leaves that product
\* stored with its counter one higher than before the step and every other
\* field as the store had it, so that n such reads add n, however they
\* interleave with each other and with updates.
C19_EveryReadIsCounted ==
    [][(resp'.kind = "readOne" /\ resp'.status = 200) =>
          \E p \in store :
              /\ p._id = resp'.product._id
              /\ store' = (store \ {p}) \cup {[p EXCEPT !.views = @ + 1]}]_vars

----------------------------------------------------------------------------
(* Properties of the search page *)

\* The prices of the displayed results that have a number as their price
DisplayedPrices ==
    {page.results[i].currentPrice.n :
        i \in {j \in 1..Len(page.results) : page.results[j].currentPrice.t = "number"}}

\* C20: whenever no request of the page is in flight, the lowestPrice it
\* displays is the minimum of the prices of the results it displays, and null
\* exactly when no displayed result has a price.
C20_LowestPriceOfDisplayedResults ==
    (~page.fetching /\ ~page.searching) =>
        page.lowestPrice =
            IF DisplayedPrices = {} THEN NullValue
            ELSE Num(CHOOSE m \in DisplayedPrices : \A n \in DisplayedPrices : m <= n)

====
